---------------------------- MODULE Spec2Model ----------------------------
(***************************************************************************)
(* A model of the evaluation core of the program-synthesis assignment:     *)
(*   - EvaluationReport (report.py): the per-attempt verdict object, its   *)
(*     three mutators add_test_result, add_error, finalize, and to_dict;   *)
(*   - the evaluate methods of MockSynthesizer (synthesizer.py),           *)
(*     RustProgramSynthesizer (synthesizer_rust.py) and                    *)
(*     OCamlProgramSynthesizer (synthesizer_ocaml.py);                     *)
(*   - ProgramSynthesizer.synthesize and SynthesisLogger (logger.py);      *)
(*   - the Evaluator (evaluate.py).                                        *)
(*                                                                         *)
(* The specifications share the variables:                                 *)
(*   Spec         a client drives one report through its public interface  *)
(*                (the three methods, direct writes of the status flags);  *)
(*   SpecEval     a client calls the evaluate methods, each call returning *)
(*                a new finalized report;                                  *)
(*   SpecReports  the reports of several attempts as objects of one heap;  *)
(*   SpecScratch  concurrent evaluate calls and their scratch directories; *)
(*   SpecSynth    synthesize calls and the log they write;                 *)
(*   SpecMetrics  _compute_pass_at_k_metrics on given datapoint logs;      *)
(*   SpecRates    _compute_success_rates on given datapoint logs;          *)
(*   SpecRun      run_evaluation on a dataset.                             *)
(*                                                                         *)
(* Python values are represented as follows.  None is the string "None"    *)
(* (0 where the other values are attempt numbers).                         *)
(* A float obtained as a quotient p / t of small non-negative integers is  *)
(* the fraction in lowest terms [num, den]; 0.0 is 0/1 and 1.0 is 1/1, so  *)
(* two such floats are equal exactly when their records are equal.         *)
(***************************************************************************)
EXTENDS Integers, Sequences, FiniteSets, TLC

VARIABLES
    report,          \* the EvaluationReport object under consideration
    last,            \* name of the operation that produced the current state
    finalize_calls,  \* number of finalize() calls just made in a row (capped at 2)
    evaluator,       \* class whose evaluate() returned `report` ("none" before any call)
    datapoint,       \* the ProgramSynthesisDatapoint passed to evaluate()
    candidate,       \* the synthesized_program text passed to evaluate()
    failure_type,    \* the value random.choice returned inside MockSynthesizer.evaluate
    exception,       \* the exception the last evaluate() call raised ("none" if it returned)
    ocaml_available, \* OCamlProgramSynthesizer._ocaml_available
    dataset,         \* Evaluator.dataset: the datapoints (their src_uid) to evaluate
    max_pass_at_k,   \* Evaluator.max_pass_at_k
    datapoint_logs,  \* Evaluator.datapoint_logs
    pass_at_k_metrics, \* what _compute_pass_at_k_metrics returned ("unset" before the call)
    run_pc,          \* position of the Evaluator in run_evaluation
    success_rates,   \* what _compute_success_rates returned ("unset" before the call)
    run_outcome,     \* what run_evaluation returned or raised ("unset" before that)
    temp_dirs,       \* names of the temporary directories that exist in the file system
    calls,           \* the evaluate() calls of the concurrent workers
    logger,          \* the SynthesisLogger: its log_file, the file's lines, the records emitted
    synth,           \* the last ProgramSynthesizer.synthesize call and how it ended
    heap,            \* the list objects of the Python heap, by address
    reports,         \* the EvaluationReport objects of the attempts (list fields hold addresses)
    target           \* index in `reports` of the object the last operation was called on

\* the report and its history
reportVars == <<report, last, finalize_calls>>

\* the last evaluate() call and the adapter's flag
evalVars == <<evaluator, datapoint, candidate, failure_type, exception, ocaml_available>>

\* the Evaluator
runVars ==
    <<dataset, max_pass_at_k, datapoint_logs, pass_at_k_metrics, run_pc,
      success_rates, run_outcome>>

\* the scratch directories and the calls using them
scratchVars == <<temp_dirs, calls>>

\* the synthesis logger and the last synthesize() call
synthVars == <<logger, synth>>

\* the heap and the reports of several attempts
heapVars == <<heap, reports, target>>

vars == <<reportVars, evalVars, runVars, scratchVars, synthVars, heapVars>>

---------------------------------------------------------------------------
\* Bounds of the model.

\* most test results a report holds in Spec
MaxTests == 3

\* most diagnostics (over the four lists together) a report holds in Spec
MaxDiags == 2

\* most sample inputs / sample outputs of a datapoint in SpecEval
MaxSamples == 3

\* most attempts a datapoint log holds in SpecMetrics
MaxAttempts == 5

\* most datapoint logs in SpecMetrics
MaxLogs == 2

\* largest max_pass_at_k an Evaluator is configured with
MaxK == 6

\* most attempts a datapoint log holds in SpecRates
MaxRateAttempts == 2

\* most datapoints of a dataset in SpecRun
MaxDatapoints == 5

\* number of evaluate() calls made by concurrent workers in SpecScratch
MaxCalls == 2

\* most synthesize() calls made on one synthesizer in SpecSynth
MaxSynthCalls == 2

\* most EvaluationReport objects alive at once in SpecReports
MaxReports == 2

\* most entries appended to the lists of all reports together in SpecReports
MaxAppends == 2

---------------------------------------------------------------------------
\* Floats that are quotients of counters.

RECURSIVE GCD(_, _)
GCD(a, b) == IF b = 0 THEN a ELSE GCD(b, a % b)

\* Python's  p / t  for integers 0 <= p, 0 < t
Quotient(p, t) ==
    LET g == GCD(p, t)
    IN  [num |-> p \div g, den |-> t \div g]

\* the literal 0.0
Zero == [num |-> 0, den |-> 1]

\* the literal 1.0
One == [num |-> 1, den |-> 1]

\* x > 0.0
Positive(x) == x.num > 0

---------------------------------------------------------------------------
\* EvaluationReport (report.py)

\* EvaluationReport.__init__(synthesized_program)
EvaluationReport(synthesized_program) ==
    [ synthesized_program |-> synthesized_program,
      synthesized         |-> FALSE,
      compiles            |-> FALSE,
      executes            |-> FALSE,
      total_tests         |-> 0,
      passed_tests        |-> 0,
      failed_tests        |-> 0,
      test_results        |-> << >>,
      stdout              |-> "",
      stderr              |-> "",
      synthesizer_errors  |-> << >>,
      compiler_errors     |-> << >>,
      runtime_errors      |-> << >>,
      warnings            |-> << >>,
      has_syntax_errors   |-> FALSE,
      has_runtime_errors  |-> FALSE,
      has_logic_errors    |-> FALSE,
      success_rate        |-> Zero,
      overall_status      |-> "unknown" ]

\* the dictionary appended by add_test_result
TestResult(test_input, expected_output, actual_output, status, error) ==
    [ input           |-> test_input,
      expected_output |-> expected_output,
      actual_output   |-> actual_output,
      status          |-> status,
      error           |-> error ]

\* add_test_result testing  status != "failed"  instead of  status == "passed":
\* an "error" result is counted in passed_tests
add_test_result_error_as_passed(r, test_input, expected_output, actual_output, status, error) ==
    LET r1 == [r EXCEPT
                 !.test_results = Append(@, TestResult(test_input, expected_output,
                                                       actual_output, status, error)),
                 !.total_tests = @ + 1]
    IN  IF status # "failed"
        THEN [r1 EXCEPT !.passed_tests = @ + 1]
        ELSE [r1 EXCEPT !.failed_tests = @ + 1]

\* add_test_result with the else branch narrowed to  elif status == "failed":
\* an "error" result is counted in total_tests only
add_test_result_uncounted_error(r, test_input, expected_output, actual_output, status, error) ==
    LET r1 == [r EXCEPT
                 !.test_results = Append(@, TestResult(test_input, expected_output,
                                                       actual_output, status, error)),
                 !.total_tests = @ + 1]
    IN  IF status = "passed"
        THEN [r1 EXCEPT !.passed_tests = @ + 1]
        ELSE IF status = "failed"
        THEN [r1 EXCEPT !.failed_tests = @ + 1]
        ELSE r1

\* EvaluationReport.add_test_result
add_test_result(r, test_input, expected_output, actual_output, status, error) ==
    LET r1 == [r EXCEPT
                 !.test_results = Append(@, TestResult(test_input, expected_output,
                                                       actual_output, status, error)),
                 !.total_tests = @ + 1]
    IN  IF status = "passed"
        THEN [r1 EXCEPT !.passed_tests = @ + 1]
        ELSE [r1 EXCEPT !.failed_tests = @ + 1]

\* add_error whose "warning" branch also sets has_runtime_errors
add_error_warning_sets_flag(r, error_type, error_message) ==
    IF error_type = "synthesizer"
    THEN [r EXCEPT !.synthesizer_errors = Append(@, error_message),
                   !.synthesized = FALSE]
    ELSE IF error_type = "compiler"
    THEN [r EXCEPT !.compiler_errors = Append(@, error_message),
                   !.has_syntax_errors = TRUE]
    ELSE IF error_type = "runtime"
    THEN [r EXCEPT !.runtime_errors = Append(@, error_message),
                   !.has_runtime_errors = TRUE]
    ELSE IF error_type = "warning"
    THEN [r EXCEPT !.warnings = Append(@, error_message),
                   !.has_runtime_errors = TRUE]
    ELSE r

\* add_error whose "compiler" branch does not set has_syntax_errors
add_error_compiler_no_flag(r, error_type, error_message) ==
    IF error_type = "synthesizer"
    THEN [r EXCEPT !.synthesizer_errors = Append(@, error_message),
                   !.synthesized = FALSE]
    ELSE IF error_type = "compiler"
    THEN [r EXCEPT !.compiler_errors = Append(@, error_message)]
    ELSE IF error_type = "runtime"
    THEN [r EXCEPT !.runtime_errors = Append(@, error_message),
                   !.has_runtime_errors = TRUE]
    ELSE IF error_type = "warning"
    THEN [r EXCEPT !.warnings = Append(@, error_message)]
    ELSE r

\* add_error whose "compiler" branch also writes overall_status
add_error_writes_status(r, error_type, error_message) ==
    IF error_type = "synthesizer"
    THEN [r EXCEPT !.synthesizer_errors = Append(@, error_message),
                   !.synthesized = FALSE]
    ELSE IF error_type = "compiler"
    THEN [r EXCEPT !.compiler_errors = Append(@, error_message),
                   !.has_syntax_errors = TRUE,
                   !.overall_status = "failed"]
    ELSE IF error_type = "runtime"
    THEN [r EXCEPT !.runtime_errors = Append(@, error_message),
                   !.has_runtime_errors = TRUE]
    ELSE IF error_type = "warning"
    THEN [r EXCEPT !.warnings = Append(@, error_message)]
    ELSE r

\* EvaluationReport.add_error
add_error(r, error_type, error_message) ==
    IF error_type = "synthesizer"
    THEN [r EXCEPT !.synthesizer_errors = Append(@, error_message),
                   !.synthesized = FALSE]
    ELSE IF error_type = "compiler"
    THEN [r EXCEPT !.compiler_errors = Append(@, error_message),
                   !.has_syntax_errors = TRUE]
    ELSE IF error_type = "runtime"
    THEN [r EXCEPT !.runtime_errors = Append(@, error_message),
                   !.has_runtime_errors = TRUE]
    ELSE IF error_type = "warning"
    THEN [r EXCEPT !.warnings = Append(@, error_message)]
    ELSE r

\* finalize testing  success_rate == 1.0  before the syntax-error branch
finalize_rate_first(r) ==
    LET r1 == IF r.total_tests > 0
              THEN [r EXCEPT !.success_rate = Quotient(r.passed_tests, r.total_tests)]
              ELSE r
    IN  IF r1.success_rate = One
        THEN [r1 EXCEPT !.overall_status = "success"]
        ELSE IF r1.has_syntax_errors \/ ~r1.compiles
        THEN [r1 EXCEPT !.overall_status = "failed"]
        ELSE IF Positive(r1.success_rate)
        THEN [r1 EXCEPT !.overall_status = "partial"]
        ELSE [r1 EXCEPT !.overall_status = "failed"]

\* finalize without the  not self.compiles  test of its first branch
finalize_ignores_compiles(r) ==
    LET r1 == IF r.total_tests > 0
              THEN [r EXCEPT !.success_rate = Quotient(r.passed_tests, r.total_tests)]
              ELSE r
    IN  IF r1.has_syntax_errors
        THEN [r1 EXCEPT !.overall_status = "failed"]
        ELSE IF r1.success_rate = One
        THEN [r1 EXCEPT !.overall_status = "success"]
        ELSE IF Positive(r1.success_rate)
        THEN [r1 EXCEPT !.overall_status = "partial"]
        ELSE [r1 EXCEPT !.overall_status = "failed"]

\* finalize dividing by failed_tests instead of total_tests (guarded against 0)
finalize_wrong_divisor(r) ==
    LET r1 == IF r.total_tests > 0 /\ r.failed_tests > 0
              THEN [r EXCEPT !.success_rate = Quotient(r.passed_tests, r.failed_tests)]
              ELSE r
    IN  IF r1.has_syntax_errors \/ ~r1.compiles
        THEN [r1 EXCEPT !.overall_status = "failed"]
        ELSE IF r1.success_rate = One
        THEN [r1 EXCEPT !.overall_status = "success"]
        ELSE IF Positive(r1.success_rate)
        THEN [r1 EXCEPT !.overall_status = "partial"]
        ELSE [r1 EXCEPT !.overall_status = "failed"]

\* finalize deciding the status before it refreshes success_rate
finalize_status_first(r) ==
    LET r1 == IF r.has_syntax_errors \/ ~r.compiles
              THEN [r EXCEPT !.overall_status = "failed"]
              ELSE IF r.success_rate = One
              THEN [r EXCEPT !.overall_status = "success"]
              ELSE IF Positive(r.success_rate)
              THEN [r EXCEPT !.overall_status = "partial"]
              ELSE [r EXCEPT !.overall_status = "failed"]
    IN  IF r1.total_tests > 0
        THEN [r1 EXCEPT !.success_rate = Quotient(r1.passed_tests, r1.total_tests)]
        ELSE r1

\* EvaluationReport.finalize
finalize(r) ==
    LET r1 == IF r.total_tests > 0
              THEN [r EXCEPT !.success_rate = Quotient(r.passed_tests, r.total_tests)]
              ELSE r
    IN  IF r1.has_syntax_errors \/ ~r1.compiles
        THEN [r1 EXCEPT !.overall_status = "failed"]
        ELSE IF r1.success_rate = One
        THEN [r1 EXCEPT !.overall_status = "success"]
        ELSE IF Positive(r1.success_rate)
        THEN [r1 EXCEPT !.overall_status = "partial"]
        ELSE [r1 EXCEPT !.overall_status = "failed"]

\* to_dict reporting failed_tests under the key "passed_tests"
to_dict_swapped_counts(r) ==
    [ synthesized_program |-> r.synthesized_program,
      synthesized         |-> r.synthesized,
      compiles            |-> r.compiles,
      executes            |-> r.executes,
      total_tests         |-> r.total_tests,
      passed_tests        |-> r.failed_tests,
      failed_tests        |-> r.failed_tests,
      success_rate        |-> r.success_rate,
      overall_status      |-> r.overall_status,
      test_results        |-> r.test_results,
      stdout              |-> r.stdout,
      stderr              |-> r.stderr,
      synthesizer_errors  |-> r.synthesizer_errors,
      compiler_errors     |-> r.compiler_errors,
      runtime_errors      |-> r.runtime_errors,
      warnings            |-> r.warnings,
      has_syntax_errors   |-> r.has_syntax_errors,
      has_runtime_errors  |-> r.has_runtime_errors,
      has_logic_errors    |-> r.has_logic_errors ]

\* EvaluationReport.to_dict
to_dict(r) ==
    [ synthesized_program |-> r.synthesized_program,
      synthesized         |-> r.synthesized,
      compiles            |-> r.compiles,
      executes            |-> r.executes,
      total_tests         |-> r.total_tests,
      passed_tests        |-> r.passed_tests,
      failed_tests        |-> r.failed_tests,
      success_rate        |-> r.success_rate,
      overall_status      |-> r.overall_status,
      test_results        |-> r.test_results,
      stdout              |-> r.stdout,
      stderr              |-> r.stderr,
      synthesizer_errors  |-> r.synthesizer_errors,
      compiler_errors     |-> r.compiler_errors,
      runtime_errors      |-> r.runtime_errors,
      warnings            |-> r.warnings,
      has_syntax_errors   |-> r.has_syntax_errors,
      has_runtime_errors  |-> r.has_runtime_errors,
      has_logic_errors    |-> r.has_logic_errors ]

---------------------------------------------------------------------------
\* Inputs: candidate programs and datapoints.

\* the candidate of test_syntax_error (rejected by the compiler)
bad_program == "fn main() { let x = 42 }"

\* the candidate of test_success (builds, and prints the sum on every sample)
good_program == "fn main() { println!(sum) }"

\* the candidate of test_runtime_error (builds, panics on every sample)
crash_program == "fn main() { numbers[10] }"

\* the candidate of test_timeout (builds, loops forever)
loop_program == "fn main() { loop {} }"

\* the candidate of test_partial_failure (builds, runs cleanly, prints the sum
\* for an even count of numbers and sum + 1 for an odd count)
partial_program == "fn main() { println!(sum or sum + 1) }"

\* candidate texts handed to evaluate(); "" is the empty candidate
Candidates ==
    {"", bad_program, good_program, crash_program, loop_program, partial_program}

\* sample_inputs / sample_outputs of the tests' simple datapoint, followed by
\* two more pairs of the same problem (sum of the numbers) for longer datapoints
AllSampleInputs == <<"1 2 3", "10 20", "5", "7 8", "9">>

AllSampleOutputs == <<"6", "30", "5", "15", "9">>

\* ProgramSynthesisDatapoint: the two lists are read independently from the
\* data dictionary, so their lengths need not agree
Datapoint(n, m) ==
    [ sample_inputs  |-> SubSeq(AllSampleInputs, 1, n),
      sample_outputs |-> SubSeq(AllSampleOutputs, 1, m) ]

Datapoints == { Datapoint(n, m) : n \in 0..MaxSamples, m \in 0..MaxSamples }

---------------------------------------------------------------------------
\* Spec: one report driven through its public interface.

\* argument tuples of add_test_result calls, one or two per status
TestCalls ==
    { <<"1 2 3", "6", "6", "passed", "None">>,
      <<"1 2 3", "6", "7", "failed", "None">>,
      <<"1 2 3", "6", "", "error", "Execution timed out">> }

\* error_type arguments of add_error calls; "info" is none of the four kinds
ErrorTypes == {"synthesizer", "compiler", "runtime", "warning", "info"}

\* error_message arguments of add_error calls
ErrorMessages == {"SyntaxError: invalid syntax"}

\* number of diagnostics a report holds
DiagCount(r) ==
    Len(r.synthesizer_errors) + Len(r.compiler_errors)
        + Len(r.runtime_errors) + Len(r.warnings)

\* the status flags callers assign directly (report.compiles = True, ...)
Flags == {"synthesized", "compiles", "executes"}

NoDatapoint == Datapoint(0, 0)

\* the caller's report variable while no evaluate() call has returned a report
NoReport == EvaluationReport("")

\* the Evaluator is not part of the specification at hand
RunIdle ==
    /\ dataset = << >>
    /\ max_pass_at_k = 0
    /\ datapoint_logs = << >>
    /\ pass_at_k_metrics = "unset"
    /\ run_pc = "idle"
    /\ success_rates = "unset"
    /\ run_outcome = "unset"

\* no concurrent workers are part of the specification at hand
ScratchIdle ==
    /\ temp_dirs = {}
    /\ calls = << >>

\* no synthesize() call is part of the specification at hand
SynthIdle ==
    /\ logger = "none"
    /\ synth = "none"

\* the heap of several reports is not part of the specification at hand
HeapIdle ==
    /\ heap = << >>
    /\ reports = << >>
    /\ target = 0

Init ==
    /\ candidate = good_program
    /\ report = EvaluationReport(candidate)
    /\ last = "init"
    /\ finalize_calls = 0
    /\ evaluator = "none"
    /\ datapoint = NoDatapoint
    /\ failure_type = "none"
    /\ exception = "none"
    /\ ocaml_available = FALSE
    /\ RunIdle
    /\ ScratchIdle
    /\ SynthIdle
    /\ HeapIdle

AddTestResult ==
    /\ report.total_tests < MaxTests
    /\ \E c \in TestCalls :
          report' = add_test_result(report, c[1], c[2], c[3], c[4], c[5])
    /\ last' = "add_test_result"
    /\ finalize_calls' = 0
    /\ UNCHANGED <<evalVars, runVars, scratchVars, synthVars, heapVars>>

AddError ==
    /\ DiagCount(report) < MaxDiags
    /\ \E t \in ErrorTypes, m \in ErrorMessages :
          report' = add_error(report, t, m)
    /\ last' = "add_error"
    /\ finalize_calls' = 0
    /\ UNCHANGED <<evalVars, runVars, scratchVars, synthVars, heapVars>>

SetFlag ==
    /\ \E f \in Flags, b \in BOOLEAN :
          report' = [report EXCEPT ![f] = b]
    /\ last' = "set_flag"
    /\ finalize_calls' = 0
    /\ UNCHANGED <<evalVars, runVars, scratchVars, synthVars, heapVars>>

Finalize ==
    /\ report' = finalize(report)
    /\ last' = "finalize"
    /\ finalize_calls' = IF finalize_calls < 2 THEN finalize_calls + 1 ELSE 2
    /\ UNCHANGED <<evalVars, runVars, scratchVars, synthVars, heapVars>>

Next ==
    \/ AddTestResult
    \/ AddError
    \/ SetFlag
    \/ Finalize

Spec == Init /\ [][Next]_vars

---------------------------------------------------------------------------
\* The evaluate methods.

\* zip(datapoint.sample_inputs, datapoint.sample_outputs): stops at the shorter list
Zip(inputs, outputs) ==
    LET n == IF Len(inputs) < Len(outputs) THEN Len(inputs) ELSE Len(outputs)
    IN  [i \in 1..n |-> <<inputs[i], outputs[i]>>]

\* the choices of random.choice in MockSynthesizer.evaluate
FailureTypes ==
    {"synthesis_failure", "syntax_error", "runtime_error", "timeout_error", "partial_success"}

\* the for loop of the timeout_error branch, from the i-th pair on (i counts
\* from 1, Python's enumerate from 0)
RECURSIVE timeout_loop(_, _, _)
timeout_loop(r, pairs, i) ==
    IF i > Len(pairs) THEN r
    ELSE timeout_loop(
             IF i - 1 = 0
             THEN add_test_result(r, pairs[i][1], pairs[i][2], "", "error",
                                  "Execution timed out")
             ELSE add_test_result(r, pairs[i][1], pairs[i][2], "", "error",
                                  "Test skipped due to timeout"),
             pairs, i + 1)

\* the for loop of the partial_success branch
RECURSIVE partial_loop(_, _, _)
partial_loop(r, pairs, i) ==
    IF i > Len(pairs) THEN r
    ELSE partial_loop(
             IF (i - 1) % 2 = 0
             THEN add_test_result(r, pairs[i][1], pairs[i][2], pairs[i][2], "passed", "None")
             ELSE add_test_result(r, pairs[i][1], pairs[i][2], "wrong_output", "failed", "None"),
             pairs, i + 1)

\* the for loop of the final else branch (complete failure)
RECURSIVE failure_loop(_, _, _)
failure_loop(r, pairs, i) ==
    IF i > Len(pairs) THEN r
    ELSE failure_loop(
             add_test_result(r, pairs[i][1], pairs[i][2], "completely_wrong", "failed", "None"),
             pairs, i + 1)

\* MockSynthesizer.evaluate whose runtime_error branch also records the
\* crashing first sample as a test result
mock_evaluate_records_crash(dp, synthesized_program, ft) ==
    LET r0    == EvaluationReport(synthesized_program)
        pairs == Zip(dp.sample_inputs, dp.sample_outputs)
        r1    == IF ft = "synthesis_failure"
                 THEN add_error([r0 EXCEPT !.synthesized = FALSE,
                                           !.compiles = FALSE,
                                           !.executes = FALSE],
                                "synthesizer", "LLM running out of tokens")
                 ELSE IF ft = "syntax_error"
                 THEN add_error(add_error([r0 EXCEPT !.compiles = FALSE],
                                          "compiler", "SyntaxError: invalid syntax"),
                                "compiler", "IndentationError: unexpected indent")
                 ELSE IF ft = "runtime_error"
                 THEN LET r2 == add_error([r0 EXCEPT !.compiles = TRUE,
                                                     !.executes = FALSE],
                                          "runtime",
                                          "NameError: name 'undefined_var' is not defined")
                      IN  IF Len(pairs) > 0
                          THEN add_test_result(r2, pairs[1][1], pairs[1][2], "", "error",
                                               "NameError: name 'undefined_var' is not defined")
                          ELSE r2
                 ELSE IF ft = "timeout_error"
                 THEN timeout_loop([r0 EXCEPT !.compiles = TRUE, !.executes = TRUE],
                                   pairs, 1)
                 ELSE IF ft = "partial_success"
                 THEN partial_loop([r0 EXCEPT !.compiles = TRUE, !.executes = TRUE],
                                   pairs, 1)
                 ELSE failure_loop([r0 EXCEPT !.compiles = TRUE, !.executes = TRUE],
                                   pairs, 1)
    IN  finalize(r1)

\* MockSynthesizer.evaluate, with ft the failure type random.choice returns
mock_evaluate(dp, synthesized_program, ft) ==
    LET r0    == EvaluationReport(synthesized_program)
        pairs == Zip(dp.sample_inputs, dp.sample_outputs)
        r1    == IF ft = "synthesis_failure"
                 THEN add_error([r0 EXCEPT !.synthesized = FALSE,
                                           !.compiles = FALSE,
                                           !.executes = FALSE],
                                "synthesizer", "LLM running out of tokens")
                 ELSE IF ft = "syntax_error"
                 THEN add_error(add_error([r0 EXCEPT !.compiles = FALSE],
                                          "compiler", "SyntaxError: invalid syntax"),
                                "compiler", "IndentationError: unexpected indent")
                 ELSE IF ft = "runtime_error"
                 THEN add_error([r0 EXCEPT !.compiles = TRUE,
                                           !.executes = FALSE],
                                "runtime",
                                "NameError: name 'undefined_var' is not defined")
                 ELSE IF ft = "timeout_error"
                 THEN timeout_loop([r0 EXCEPT !.compiles = TRUE, !.executes = TRUE],
                                   pairs, 1)
                 ELSE IF ft = "partial_success"
                 THEN partial_loop([r0 EXCEPT !.compiles = TRUE, !.executes = TRUE],
                                   pairs, 1)
                 ELSE failure_loop([r0 EXCEPT !.compiles = TRUE, !.executes = TRUE],
                                   pairs, 1)
    IN  finalize(r1)

\* ProgramSynthesizer.evaluate: the exception it raises
base_evaluate(dp, synthesized_program) == "NotImplementedError"

\* what running  ocaml -version  can do at construction of the OCaml adapter
ProbeOutcomes == {"exit 0", "exit 1", "FileNotFoundError", "TimeoutExpired"}

\* OCamlProgramSynthesizer._check_ocaml_availability: returncode == 0, and
\* False when the command is missing or does not answer in time
check_ocaml_availability(outcome) ==
    IF outcome \in {"FileNotFoundError", "TimeoutExpired"}
    THEN FALSE
    ELSE outcome = "exit 0"

\* RustProgramSynthesizer.evaluate: the body of its with block is  pass
rust_evaluate(dp, synthesized_program) ==
    finalize(EvaluationReport(synthesized_program))

\* OCamlProgramSynthesizer.evaluate: the body of its with block is  pass
ocaml_evaluate(dp, synthesized_program) ==
    finalize(EvaluationReport(synthesized_program))

---------------------------------------------------------------------------
\* SpecEval: a caller invokes the evaluate methods; `report` is the report
\* the last call returned.

InitEval ==
    /\ candidate = ""
    /\ report = NoReport
    /\ last = "init"
    /\ finalize_calls = 0
    /\ evaluator = "none"
    /\ datapoint = NoDatapoint
    /\ failure_type = "none"
    /\ exception = "none"
    /\ \E outcome \in ProbeOutcomes :
          ocaml_available = check_ocaml_availability(outcome)
    /\ RunIdle
    /\ ScratchIdle
    /\ SynthIdle
    /\ HeapIdle

MockEvaluate ==
    \E dp \in Datapoints, p \in Candidates, ft \in FailureTypes :
        /\ report' = mock_evaluate(dp, p, ft)
        /\ datapoint' = dp
        /\ candidate' = p
        /\ failure_type' = ft
        /\ evaluator' = "mock"
        /\ last' = "evaluate"
        /\ finalize_calls' = 1
        /\ exception' = "none"
        /\ UNCHANGED <<ocaml_available, runVars, scratchVars, synthVars, heapVars>>

RustEvaluate ==
    \E dp \in Datapoints, p \in Candidates :
        /\ report' = rust_evaluate(dp, p)
        /\ datapoint' = dp
        /\ candidate' = p
        /\ failure_type' = "none"
        /\ evaluator' = "rust"
        /\ last' = "evaluate"
        /\ finalize_calls' = 1
        /\ exception' = "none"
        /\ UNCHANGED <<ocaml_available, runVars, scratchVars, synthVars, heapVars>>

OCamlEvaluate ==
    \E dp \in Datapoints, p \in Candidates :
        /\ report' = ocaml_evaluate(dp, p)
        /\ datapoint' = dp
        /\ candidate' = p
        /\ failure_type' = "none"
        /\ evaluator' = "ocaml"
        /\ last' = "evaluate"
        /\ finalize_calls' = 1
        /\ exception' = "none"
        /\ UNCHANGED <<ocaml_available, runVars, scratchVars, synthVars, heapVars>>

\* ProgramSynthesizer.evaluate, the method the subclasses override: it raises,
\* so the caller receives no report and is left with none
BaseEvaluate ==
    \E dp \in Datapoints, p \in Candidates :
        /\ exception' = base_evaluate(dp, p)
        /\ datapoint' = dp
        /\ candidate' = p
        /\ failure_type' = "none"
        /\ evaluator' = "base"
        /\ last' = "raise"
        /\ report' = NoReport
        /\ finalize_calls' = 0
        /\ UNCHANGED <<ocaml_available, runVars, scratchVars, synthVars, heapVars>>

NextEval ==
    \/ MockEvaluate
    \/ RustEvaluate
    \/ OCamlEvaluate
    \/ BaseEvaluate

SpecEval == InitEval /\ [][NextEval]_vars

---------------------------------------------------------------------------
\* How calls end.

\* an exception object
Exc(type, message) == [type |-> type, message |-> message]

\* no exception
NoExc == Exc("none", "")

\* a call that returned value
Returns(value) == [kind |-> "returned", value |-> value, exc |-> NoExc]

\* a call that raised exception e
Raised(e) == [kind |-> "raised", value |-> "", exc |-> e]

Raises(type, message) == Raised(Exc(type, message))

---------------------------------------------------------------------------
\* The Evaluator (evaluate.py).

\* an entry of a log's "attempts" list (the fields the metrics read)
Attempt(attempt_number, success) ==
    [ attempt_number |-> attempt_number, success |-> success ]

\* index of the first TRUE of a sequence of booleans; 0, which is no attempt
\* number, stands for None if there is none
RECURSIVE FirstSuccess(_, _)
FirstSuccess(flags, i) ==
    IF i > Len(flags) THEN 0
    ELSE IF flags[i] THEN i
    ELSE FirstSuccess(flags, i + 1)

\* a datapoint log as the comment of _evaluate_all_datapoints lays it out,
\* for attempts whose success values are `flags`
DatapointLog(flags) ==
    [ attempts    |-> [i \in 1..Len(flags) |-> Attempt(i, flags[i])],
      passed_at_k |-> FirstSuccess(flags, 1) ]

\* sequences of booleans of length n
BoolSeqs(n) == [1..n -> BOOLEAN]

\* the datapoint logs handed to the metric functions
Logs == UNION { { DatapointLog(f) : f \in BoolSeqs(n) } : n \in 0..MaxAttempts }

LogLists == UNION { [1..m -> Logs] : m \in 0..MaxLogs }

\* Evaluator._evaluate_all_datapoints: its body is  pass , so it leaves
\* self.datapoint_logs as it is
evaluate_all_datapoints(logs, data, k) == logs

\* Evaluator._compute_pass_at_k_metrics: its body is  pass , so it returns None
compute_pass_at_k_metrics(logs, k) == "None"

\* the loop of _compute_success_rates over the logs from the i-th on; acc
\* holds total_attempts, successful_attempts and datapoints_with_success
RECURSIVE success_rates_loop(_, _, _)
success_rates_loop(logs, i, acc) ==
    IF i > Len(logs) THEN acc
    ELSE LET log == logs[i]
             won == Cardinality({ a \in 1..Len(log.attempts) : log.attempts[a].success })
         IN  success_rates_loop(logs, i + 1,
                 [ total_attempts          |-> acc.total_attempts + Len(log.attempts),
                   successful_attempts     |-> acc.successful_attempts + won,
                   datapoints_with_success |->
                       IF log.passed_at_k # 0
                       THEN acc.datapoints_with_success + 1
                       ELSE acc.datapoints_with_success ])

\* _compute_success_rates dividing successful_attempts by the number of
\* datapoint logs instead of the number of attempts
compute_success_rates_per_log(logs) ==
    LET acc == success_rates_loop(logs, 1,
                   [ total_attempts |-> 0, successful_attempts |-> 0,
                     datapoints_with_success |-> 0 ])
        total_datapoints == Len(logs)
    IN  [ successful_attempts    |-> acc.successful_attempts,
          overall_success_rate   |->
              IF total_datapoints > 0
              THEN Quotient(acc.successful_attempts, total_datapoints) ELSE Zero,
          datapoint_success_rate |->
              IF total_datapoints > 0
              THEN Quotient(acc.datapoints_with_success, total_datapoints) ELSE Zero ]

\* Evaluator._compute_success_rates
compute_success_rates(logs) ==
    LET acc == success_rates_loop(logs, 1,
                   [ total_attempts |-> 0, successful_attempts |-> 0,
                     datapoints_with_success |-> 0 ])
        total_datapoints == Len(logs)
    IN  [ successful_attempts    |-> acc.successful_attempts,
          overall_success_rate   |->
              IF acc.total_attempts > 0
              THEN Quotient(acc.successful_attempts, acc.total_attempts) ELSE Zero,
          datapoint_success_rate |->
              IF total_datapoints > 0
              THEN Quotient(acc.datapoints_with_success, total_datapoints) ELSE Zero ]

\* sum(len(log["attempts"]) for log in self.datapoint_logs)
RECURSIVE total_attempts_of(_)
total_attempts_of(logs) ==
    IF logs = << >> THEN 0
    ELSE Len(Head(logs).attempts) + total_attempts_of(Tail(logs))

\* the total_time run_evaluation measures, in whole seconds
ElapsedTimes == {1, 4}

\* Evaluator._generate_final_report(total_time): the summary_statistics and
\* pass_at_k_metrics of the report it returns
generate_final_report(logs, k, total_time) ==
    LET rates == compute_success_rates(logs)
        total_datapoints == Len(logs)
    IN  [ summary_statistics |->
            [ total_datapoints           |-> total_datapoints,
              total_attempts             |-> total_attempts_of(logs),
              successful_syntheses       |-> rates.successful_attempts,
              overall_success_rate       |-> rates.overall_success_rate,
              datapoint_success_rate     |-> rates.datapoint_success_rate,
              total_evaluation_time      |-> total_time,
              average_time_per_datapoint |->
                  IF total_datapoints > 0
                  THEN Quotient(total_time, total_datapoints) ELSE Zero ],
          pass_at_k_metrics |-> compute_pass_at_k_metrics(logs, k),
          detailed_results  |-> logs ]

\* the end of run_evaluation: the three prints, the last of which divides
\* total_time by len(self.dataset), and the return
finish_run(data, final_report) ==
    IF Len(data) = 0
    THEN Raises("ZeroDivisionError", "division by zero")
    ELSE Returns(final_report)

---------------------------------------------------------------------------
\* SpecMetrics: the metric functions applied to given datapoint logs.

InitMetrics ==
    /\ datapoint_logs \in LogLists
    /\ max_pass_at_k \in 1..MaxK
    /\ dataset = << >>
    /\ pass_at_k_metrics = "unset"
    /\ success_rates = "unset"
    /\ run_outcome = "unset"
    /\ run_pc = "logs"
    /\ report = NoReport
    /\ last = "init"
    /\ finalize_calls = 0
    /\ evaluator = "none"
    /\ datapoint = NoDatapoint
    /\ candidate = ""
    /\ failure_type = "none"
    /\ exception = "none"
    /\ ocaml_available = FALSE
    /\ ScratchIdle
    /\ SynthIdle
    /\ HeapIdle

ComputePassAtKMetrics ==
    /\ run_pc = "logs"
    /\ pass_at_k_metrics' = compute_pass_at_k_metrics(datapoint_logs, max_pass_at_k)
    /\ run_pc' = "computed"
    /\ UNCHANGED <<dataset, max_pass_at_k, datapoint_logs, success_rates, run_outcome>>
    /\ UNCHANGED <<reportVars, evalVars, scratchVars, synthVars, heapVars>>

NextMetrics ==
    \/ ComputePassAtKMetrics

SpecMetrics == InitMetrics /\ [][NextMetrics]_vars

---------------------------------------------------------------------------
\* SpecRates: _compute_success_rates applied to given datapoint logs.

RateLogs ==
    UNION { { DatapointLog(f) : f \in BoolSeqs(n) } : n \in 0..MaxRateAttempts }

RateLogLists == UNION { [1..m -> RateLogs] : m \in 0..MaxLogs }

InitRates ==
    /\ datapoint_logs \in RateLogLists
    /\ max_pass_at_k = MaxRateAttempts
    /\ dataset = << >>
    /\ pass_at_k_metrics = "unset"
    /\ success_rates = "unset"
    /\ run_outcome = "unset"
    /\ run_pc = "logs"
    /\ report = NoReport
    /\ last = "init"
    /\ finalize_calls = 0
    /\ evaluator = "none"
    /\ datapoint = NoDatapoint
    /\ candidate = ""
    /\ failure_type = "none"
    /\ exception = "none"
    /\ ocaml_available = FALSE
    /\ ScratchIdle
    /\ SynthIdle
    /\ HeapIdle

ComputeSuccessRates ==
    /\ run_pc = "logs"
    /\ success_rates' = compute_success_rates(datapoint_logs)
    /\ run_pc' = "computed"
    /\ UNCHANGED <<dataset, max_pass_at_k, datapoint_logs, pass_at_k_metrics, run_outcome>>
    /\ UNCHANGED <<reportVars, evalVars, scratchVars, synthVars, heapVars>>

NextRates ==
    \/ ComputeSuccessRates

SpecRates == InitRates /\ [][NextRates]_vars

---------------------------------------------------------------------------
\* SpecRun: Evaluator.run_evaluation on a dataset.

\* the state Evaluator.__init__ leaves: a loaded dataset, no logs
InitRun ==
    /\ \E n \in 0..MaxDatapoints : dataset = [i \in 1..n |-> i]
    /\ max_pass_at_k \in 1..MaxK
    /\ datapoint_logs = << >>
    /\ pass_at_k_metrics = "unset"
    /\ success_rates = "unset"
    /\ run_outcome = "unset"
    /\ run_pc = "constructed"
    /\ report = NoReport
    /\ last = "init"
    /\ finalize_calls = 0
    /\ evaluator = "none"
    /\ datapoint = NoDatapoint
    /\ candidate = ""
    /\ failure_type = "none"
    /\ exception = "none"
    /\ ocaml_available = FALSE
    /\ ScratchIdle
    /\ SynthIdle
    /\ HeapIdle

\* run_evaluation, up to the return of _evaluate_all_datapoints
EvaluateAllDatapoints ==
    /\ run_pc = "constructed"
    /\ datapoint_logs' = evaluate_all_datapoints(datapoint_logs, dataset, max_pass_at_k)
    /\ run_pc' = "evaluated"
    /\ UNCHANGED <<dataset, max_pass_at_k, pass_at_k_metrics, success_rates, run_outcome>>
    /\ UNCHANGED <<reportVars, evalVars, scratchVars, synthVars, heapVars>>

\* run_evaluation from the measurement of total_time to the return of
\* _generate_final_report; run_outcome holds the local final_report
GenerateFinalReport ==
    /\ run_pc = "evaluated"
    /\ \E total_time \in ElapsedTimes :
           run_outcome' = generate_final_report(datapoint_logs, max_pass_at_k, total_time)
    /\ pass_at_k_metrics' = compute_pass_at_k_metrics(datapoint_logs, max_pass_at_k)
    /\ success_rates' = compute_success_rates(datapoint_logs)
    /\ run_pc' = "reported"
    /\ UNCHANGED <<dataset, max_pass_at_k, datapoint_logs>>
    /\ UNCHANGED <<reportVars, evalVars, scratchVars, synthVars, heapVars>>

\* the rest of run_evaluation: it returns final_report or raises
FinishRun ==
    /\ run_pc = "reported"
    /\ run_outcome' = finish_run(dataset, run_outcome)
    /\ run_pc' = "done"
    /\ UNCHANGED <<dataset, max_pass_at_k, datapoint_logs, pass_at_k_metrics, success_rates>>
    /\ UNCHANGED <<reportVars, evalVars, scratchVars, synthVars, heapVars>>

NextRun ==
    \/ EvaluateAllDatapoints
    \/ GenerateFinalReport
    \/ FinishRun

SpecRun == InitRun /\ [][NextRun]_vars

---------------------------------------------------------------------------
\* SpecScratch: evaluate() calls of the Rust and OCaml evaluators made by
\* concurrent workers, and the temporary directories of their with-blocks.

Workers == 1..MaxCalls

\* the path names tempfile can pick; never fewer than the calls need
DirNames == 1..(MaxCalls + 1)

\* a directory of the file system: a path, and which creation it stems from
Directory(path, serial) == [path |-> path, serial |-> serial]

NoDirectory == Directory(0, 0)

\* a worker that has not called evaluate() yet
IdleCall ==
    [ pc |-> "idle", evaluator |-> "none", temp_dir |-> NoDirectory, report |-> NoReport ]

\* how many directories have been created so far, plus one
NextSerial(cs) == Cardinality({ c \in DOMAIN cs : cs[c].pc # "idle" }) + 1

\* a drop-in for mkdtemp that also hands out a path that exists already
mkdtemp_existing_path(fs, serial) ==
    { Directory(p, serial) : p \in DirNames }

\* tempfile.TemporaryDirectory(): the directories mkdtemp may create in file
\* system fs; mkdir fails on an existing path and another name is tried
mkdtemp(fs, serial) ==
    { Directory(p, serial) : p \in DirNames \ { d.path : d \in fs } }

\* TemporaryDirectory.__exit__: the directory is removed
cleanup(fs, d) == fs \ {d}

InitScratch ==
    /\ temp_dirs = {}
    /\ calls = [c \in Workers |-> IdleCall]
    /\ report = NoReport
    /\ last = "init"
    /\ finalize_calls = 0
    /\ evaluator = "none"
    /\ datapoint = NoDatapoint
    /\ candidate = good_program
    /\ failure_type = "none"
    /\ exception = "none"
    /\ ocaml_available = FALSE
    /\ RunIdle
    /\ SynthIdle
    /\ HeapIdle

\* evaluate(), up to the entry of the with-block
EnterWith(c) ==
    /\ calls[c].pc = "idle"
    /\ \E ev \in {"rust", "ocaml"} :
       \E d \in mkdtemp(temp_dirs, NextSerial(calls)) :
           /\ temp_dirs' = temp_dirs \cup {d}
           /\ calls' = [calls EXCEPT ![c] =
                  [ pc |-> "in_with", evaluator |-> ev, temp_dir |-> d,
                    report |-> EvaluationReport(candidate) ]]
    /\ UNCHANGED <<reportVars, evalVars, runVars, synthVars, heapVars>>

\* the body of the with-block ( pass ) ends and the block is left
ExitWith(c) ==
    /\ calls[c].pc = "in_with"
    /\ temp_dirs' = cleanup(temp_dirs, calls[c].temp_dir)
    /\ calls' = [calls EXCEPT ![c].pc = "after_with"]
    /\ UNCHANGED <<reportVars, evalVars, runVars, synthVars, heapVars>>

\* report.finalize(); return report
Return(c) ==
    /\ calls[c].pc = "after_with"
    /\ calls' = [calls EXCEPT ![c].pc = "returned",
                              ![c].report = finalize(calls[c].report)]
    /\ UNCHANGED temp_dirs
    /\ UNCHANGED <<reportVars, evalVars, runVars, synthVars, heapVars>>

NextScratch ==
    \/ \E c \in Workers : EnterWith(c)
    \/ \E c \in Workers : ExitWith(c)
    \/ \E c \in Workers : Return(c)

SpecScratch == InitScratch /\ [][NextScratch]_vars

---------------------------------------------------------------------------
\* SpecReports: the reports of several attempts as objects of one heap.  A
\* report's list fields hold the addresses of list objects; append changes
\* the list object at the address, as in Python.

ListFields ==
    {"test_results", "synthesizer_errors", "compiler_errors", "runtime_errors", "warnings"}

\* the order in which __init__ creates the five lists
ListOrder ==
    <<"test_results", "synthesizer_errors", "compiler_errors", "runtime_errors", "warnings">>

\* a constructor whose lists are class attributes: every report gets the
\* addresses of the same five list objects
new_lists_class_level(h) ==
    [f \in ListFields |-> CHOOSE i \in 1..Len(ListOrder) : ListOrder[i] = f]

\* EvaluationReport.__init__: each  self.<list> = []  creates a list object;
\* the addresses of the five new objects in heap h
new_lists(h) ==
    [f \in ListFields |-> Len(h) + (CHOOSE i \in 1..Len(ListOrder) : ListOrder[i] = f)]

\* the heap after __init__ stored empty lists at the addresses in refs
Allocate(h, refs) ==
    LET top == IF Len(h) > refs[ListOrder[Len(ListOrder)]]
               THEN Len(h) ELSE refs[ListOrder[Len(ListOrder)]]
    IN  [a \in 1..top |-> IF a \in { refs[f] : f \in ListFields } THEN << >> ELSE h[a]]

\* the object __init__ builds: scalar fields by value, list fields by address
NewObject(synthesized_program, refs) ==
    [f \in DOMAIN EvaluationReport(synthesized_program) |->
        IF f \in ListFields THEN refs[f] ELSE EvaluationReport(synthesized_program)[f]]

\* what the fields of object obj read as in heap h
Deref(obj, h) ==
    [f \in DOMAIN obj |-> IF f \in ListFields THEN h[obj[f]] ELSE obj[f]]

\* the i-th report as its caller sees it
View(i) == Deref(reports[i], heap)

\* the object after a method left it reading as r: scalar fields are rebound
StoreScalars(obj, r) ==
    [f \in DOMAIN obj |-> IF f \in ListFields THEN obj[f] ELSE r[f]]

\* the heap after a method left object obj reading as r: its lists are
\* changed in place
StoreLists(obj, r, h) ==
    [a \in DOMAIN h |->
        IF \E f \in ListFields : obj[f] = a
        THEN r[CHOOSE f \in ListFields : obj[f] = a]
        ELSE h[a]]

\* entries in all list objects of heap h
RECURSIVE Appended(_)
Appended(h) == IF h = << >> THEN 0 ELSE Len(Head(h)) + Appended(Tail(h))

InitReports ==
    /\ heap = << >>
    /\ reports = << >>
    /\ target = 0
    /\ report = NoReport
    /\ last = "init"
    /\ finalize_calls = 0
    /\ evaluator = "none"
    /\ datapoint = NoDatapoint
    /\ candidate = good_program
    /\ failure_type = "none"
    /\ exception = "none"
    /\ ocaml_available = FALSE
    /\ RunIdle
    /\ ScratchIdle
    /\ SynthIdle

\* the first statement of an evaluate call:  report = EvaluationReport(...)
NewReport ==
    /\ Len(reports) < MaxReports
    /\ LET refs == new_lists(heap)
       IN  /\ heap' = Allocate(heap, refs)
           /\ reports' = Append(reports, NewObject(candidate, refs))
    /\ target' = Len(reports) + 1
    /\ UNCHANGED <<reportVars, evalVars, runVars, scratchVars, synthVars>>

\* the method left report i reading as r
Store(i, r) ==
    /\ reports' = [reports EXCEPT ![i] = StoreScalars(reports[i], r)]
    /\ heap' = StoreLists(reports[i], r, heap)
    /\ target' = i
    /\ UNCHANGED <<reportVars, evalVars, runVars, scratchVars, synthVars>>

AddTestResultOn(i) ==
    /\ Appended(heap) < MaxAppends
    /\ Store(i, add_test_result(View(i), "1 2 3", "6", "6", "passed", "None"))

AddErrorOn(i) ==
    /\ Appended(heap) < MaxAppends
    /\ \E m \in ErrorMessages : Store(i, add_error(View(i), "compiler", m))

SetCompilesOn(i) ==
    /\ ~reports[i].compiles
    /\ Store(i, [View(i) EXCEPT !.compiles = TRUE])

FinalizeOn(i) ==
    Store(i, finalize(View(i)))

NextReports ==
    \/ NewReport
    \/ \E i \in 1..Len(reports) : AddTestResultOn(i)
    \/ \E i \in 1..Len(reports) : AddErrorOn(i)
    \/ \E i \in 1..Len(reports) : SetCompilesOn(i)
    \/ \E i \in 1..Len(reports) : FinalizeOn(i)

SpecReports == InitReports /\ [][NextReports]_vars

---------------------------------------------------------------------------
\* SpecSynth: ProgramSynthesizer.synthesize and the SynthesisLogger.

\* the prompting methods synthesize() routes to
KnownMethods ==
    {"zero_shot", "two_step_chain_of_thought", "iterative_refinement",
     "YOUR_CUSTOM_PROMPTING_METHOD"}

\* values of self.prompting_method; "few_shot" is not a known method
PromptingMethods == KnownMethods \cup {"few_shot"}

\* what a prompting method does: the methods of ProgramSynthesizer return "",
\* an overriding method returns a program or raises
MethodOutcomes ==
    { Returns(""), Returns(good_program), Raises("RuntimeError", "API quota exceeded") }

\* what open(self.log_file, 'a') does
OpenOutcomes == {"ok", "OSError"}

\* SynthesisLogger.__init__(log_file): the log file is empty and no record
\* has been emitted; with a log_file the 'synthesis' logger gets a
\* FileHandler writing to the same file
SynthesisLogger(log_file) ==
    [ log_file |-> log_file, lines |-> << >>, records |-> << >> ]

\* the JSON line log_synthesis writes (the fields that depend on the call)
LogEntry(synthesized_program, success, error) ==
    [ kind |-> "json", synthesized_program |-> synthesized_program,
      success |-> success, error |-> error ]

\* the line the FileHandler writes for  self.logger.info(...)
StatusLine(success) ==
    [ kind |-> "status", status |-> IF success THEN "SUCCESS" ELSE "FAILED" ]

\* SynthesisLogger.log_synthesis; io is what open() does if it is called.
\* The result is the logger afterwards and the exception raised (NoExc if none)
log_synthesis(lg, synthesized_program, success, error, io) ==
    IF lg.log_file # "None" /\ io = "OSError"
    THEN [ logger |-> lg, raised |-> Exc("OSError", "cannot open log file") ]
    ELSE [ logger |->
             [ lg EXCEPT
                 !.lines = IF lg.log_file # "None"
                           THEN @ \o << LogEntry(synthesized_program, success, error),
                                        StatusLine(success) >>
                           ELSE @,
                 !.records = Append(@, StatusLine(success).status) ],
           raised |-> NoExc ]

\* the try block of synthesize: the routing and the call of the method
route(prompting_method, outcome) ==
    IF prompting_method \in KnownMethods
    THEN outcome
    ELSE Raises("ValueError", "Unknown prompting method: " \o prompting_method)

\* synthesize whose except block logs the failure and returns "" instead of
\* raising
synthesize_swallows(lg, prompting_method, outcome, io1, io2) ==
    LET routed == route(prompting_method, outcome)
        log1   == log_synthesis(lg, routed.value, TRUE, "None", io1)
        e      == IF routed.kind = "raised" THEN routed.exc ELSE log1.raised
        before == IF routed.kind = "raised" THEN lg ELSE log1.logger
        log2   == log_synthesis(before, "", FALSE, e.message, io2)
    IN  IF routed.kind = "returned" /\ log1.raised = NoExc
        THEN [ logger |-> log1.logger, result |-> Returns(routed.value) ]
        ELSE IF log2.raised # NoExc
        THEN [ logger |-> log2.logger, result |-> Raised(log2.raised) ]
        ELSE [ logger |-> log2.logger, result |-> Returns("") ]

\* ProgramSynthesizer.synthesize; io1 and io2 are what open() does in the
\* first and in the second log_synthesis call, if they are made
synthesize(lg, prompting_method, outcome, io1, io2) ==
    LET routed == route(prompting_method, outcome)
        log1   == log_synthesis(lg, routed.value, TRUE, "None", io1)
        e      == IF routed.kind = "raised" THEN routed.exc ELSE log1.raised
        before == IF routed.kind = "raised" THEN lg ELSE log1.logger
        log2   == log_synthesis(before, "", FALSE, e.message, io2)
    IN  IF routed.kind = "returned" /\ log1.raised = NoExc
        THEN [ logger |-> log1.logger, result |-> Returns(routed.value) ]
        ELSE IF log2.raised # NoExc
        THEN [ logger |-> log2.logger, result |-> Raised(log2.raised) ]
        ELSE [ logger |-> log2.logger, result |-> Raised(e) ]

\* no synthesize() call has been made yet
NoCall ==
    [ prompting_method |-> "none", outcome |-> Returns(""),
      io1 |-> "ok", io2 |-> "ok", result |-> Returns("") ]

\* a synthesizer has been constructed, with a logger with or without log_file
InitSynth ==
    /\ \E log_file \in {"None", "reports/synthesis.jsonl"} :
           logger = SynthesisLogger(log_file)
    /\ synth = NoCall
    /\ report = NoReport
    /\ last = "init"
    /\ finalize_calls = 0
    /\ evaluator = "none"
    /\ datapoint = NoDatapoint
    /\ candidate = ""
    /\ failure_type = "none"
    /\ exception = "none"
    /\ ocaml_available = FALSE
    /\ RunIdle
    /\ ScratchIdle
    /\ HeapIdle

Synthesize ==
    /\ Len(logger.records) < MaxSynthCalls
    /\ \E m \in PromptingMethods, outcome \in MethodOutcomes, io1, io2 \in OpenOutcomes :
           LET call == synthesize(logger, m, outcome, io1, io2)
           IN  /\ logger' = call.logger
               /\ synth' = [ prompting_method |-> m, outcome |-> outcome,
                             io1 |-> io1, io2 |-> io2, result |-> call.result ]
    /\ UNCHANGED <<reportVars, evalVars, runVars, scratchVars, heapVars>>

NextSynth ==
    \/ Synthesize

SpecSynth == InitSynth /\ [][NextSynth]_vars

---------------------------------------------------------------------------
\* Properties of the report interface (checked under Spec).

\* C1: in every reachable report, total_tests = passed_tests + failed_tests
\* and total_tests is the number of entries of test_results.
C1_CountersConsistent ==
    /\ report.total_tests = report.passed_tests + report.failed_tests
    /\ report.total_tests = Len(report.test_results)

\* a report holding a passed, a failed and an error result
C1_Witness ==
    /\ report.total_tests = 3
    /\ \E i, j, k \in 1..3 :
          /\ report.test_results[i].status = "passed"
          /\ report.test_results[j].status = "failed"
          /\ report.test_results[k].status = "error"

\* success_rate lies strictly between 0.0 and 1.0
StrictlyBetween(x) == 0 < x.num /\ x.num < x.den

\* C2: right after finalize(), overall_status is "success" iff success_rate
\* = 1.0, compiles and not has_syntax_errors; "failed" iff not compiles or
\* has_syntax_errors or success_rate = 0; "partial" otherwise.  So it is
\* never "unknown", and "partial" needs compiles and 0 < success_rate < 1.
C2_StatusAfterFinalize ==
    last = "finalize" =>
        LET isSuccess == /\ report.success_rate = One
                         /\ report.compiles
                         /\ ~report.has_syntax_errors
            isFailed  == \/ ~report.compiles
                         \/ report.has_syntax_errors
                         \/ report.success_rate = Zero
        IN  /\ report.overall_status = "success" <=> isSuccess
            /\ report.overall_status = "failed" <=> isFailed
            /\ report.overall_status = "partial" <=> (~isSuccess /\ ~isFailed)
            /\ report.overall_status # "unknown"
            /\ report.overall_status = "partial" =>
                  report.compiles /\ StrictlyBetween(report.success_rate)

\* finalize() has just returned "partial" on a report that compiles and holds
\* both passed and failed tests
C2_Witness ==
    /\ last = "finalize"
    /\ report.overall_status = "partial"
    /\ report.passed_tests > 0
    /\ report.failed_tests > 0

\* C3: right after finalize(), success_rate = passed_tests / total_tests
\* when total_tests > 0, and success_rate = 0 when total_tests = 0.
C3_RateAfterFinalize ==
    last = "finalize" =>
        /\ report.success_rate.den > 0
        /\ report.total_tests > 0 =>
              report.success_rate.num * report.total_tests
                  = report.passed_tests * report.success_rate.den
        /\ report.total_tests = 0 => report.success_rate.num = 0

\* finalize() has just returned on a report with 1 passed test of 3
C3_Witness ==
    /\ last = "finalize"
    /\ report.total_tests = 3
    /\ report.passed_tests = 1
    /\ report.success_rate = [num |-> 1, den |-> 3]

\* C4: finalize() is idempotent: a finalize() call that directly follows a
\* finalize() call leaves every field of the report as it was.
C4_FinalizeIdempotent ==
    [][(last = "finalize" /\ last' = "finalize") => report' = report]_vars

\* two finalize() calls in a row on a report whose first call changed both
\* derived fields
C4_Witness ==
    /\ finalize_calls = 2
    /\ report.overall_status = "success"
    /\ report.total_tests > 0

\* the report with success_rate and overall_status blanked
NonDerived(r) == [r EXCEPT !.success_rate = Zero, !.overall_status = "unknown"]

\* C5: finalize() is the sole writer of success_rate and overall_status:
\* add_test_result and add_error leave both unchanged, and finalize()
\* changes no other field.
C5_FinalizeSoleWriter ==
    [][ /\ last' \in {"add_test_result", "add_error"} =>
              /\ report'.success_rate = report.success_rate
              /\ report'.overall_status = report.overall_status
        /\ last' = "finalize" => NonDerived(report') = NonDerived(report)
      ]_vars

\* a compiler error has just been recorded on a report that finalize() had
\* rated "success"
C5_Witness ==
    /\ last = "add_error"
    /\ report.has_syntax_errors
    /\ report.overall_status = "success"
    /\ report.success_rate = One

---------------------------------------------------------------------------
\* Properties of the evaluate methods (checked under SpecEval).

\* what the toolchain does with a candidate, as the test suites state it
BuildFails(p) == p = bad_program

PassesAllSamples(p) == p = good_program

\* the sample pairs of the datapoint evaluate() was called with
SamplePairs == Zip(datapoint.sample_inputs, datapoint.sample_outputs)

\* C6: every report returned by an evaluate call satisfies
\* not compiles => not executes, and not executes => total_tests = 0.
C6_CompilesExecutesTests ==
    last = "evaluate" =>
        /\ ~report.compiles => ~report.executes
        /\ ~report.executes => report.total_tests = 0

\* the mock has returned its runtime_error report (compiles, does not execute)
\* for a datapoint that has sample pairs, none of which was recorded
C6_Witness ==
    /\ last = "evaluate"
    /\ evaluator = "mock"
    /\ failure_type = "runtime_error"
    /\ Len(SamplePairs) >= 2
    /\ report.compiles
    /\ ~report.executes
    /\ report.total_tests = 0

\* test_results holds one entry per sample pair, in sample order
ResultsFollowSamples ==
    /\ Len(report.test_results) = Len(SamplePairs)
    /\ \A i \in 1..Len(SamplePairs) :
          /\ report.test_results[i].input = SamplePairs[i][1]
          /\ report.test_results[i].expected_output = SamplePairs[i][2]

\* no entry of test_results stands for a sample that was skipped
NoSampleSkipped ==
    \A i \in 1..Len(report.test_results) :
        report.test_results[i].error # "Test skipped due to timeout"

\* C7: when evaluate runs the tests (the build succeeded), it records one
\* test result per sample pair, in sample order, and an error, timeout or
\* mismatch on one sample never keeps the next from being run and recorded.
C7_EverySampleRun ==
    (last = "evaluate" /\ report.compiles /\ report.executes) =>
        ResultsFollowSamples /\ NoSampleSkipped

\* the part of C7 that the code satisfies: one entry per pair, in order
C7_EverySampleRecorded ==
    (last = "evaluate" /\ report.compiles /\ report.executes) => ResultsFollowSamples

\* C8: evaluate sets report.synthesized to true exactly when the candidate
\* text is non-empty; for an empty candidate it records a synthesizer error
\* and returns without build or run.
C8_SynthesizedIffNonEmpty ==
    last = "evaluate" =>
        /\ report.synthesized <=> candidate # ""
        /\ candidate = "" =>
              /\ Len(report.synthesizer_errors) >= 1
              /\ ~report.compiles
              /\ ~report.executes
              /\ report.total_tests = 0

\* C9: for a candidate that fails the build, evaluate returns compiles =
\* false, executes = false, has_syntax_errors = true, a non-empty
\* compiler_errors, total_tests = 0 and overall_status = "failed".
C9_BuildFailureReported ==
    (last = "evaluate" /\ evaluator \in {"rust", "ocaml"} /\ BuildFails(candidate)) =>
        /\ ~report.compiles
        /\ ~report.executes
        /\ report.has_syntax_errors
        /\ Len(report.compiler_errors) >= 1
        /\ report.total_tests = 0
        /\ report.overall_status = "failed"

\* C10: for a candidate that builds and matches the expected output on every
\* sample, evaluate returns compiles, executes, no syntax or runtime errors,
\* passed_tests = total_tests, success_rate = 1.0 and overall_status =
\* "success".
C10_CorrectCandidateSucceeds ==
    (/\ last = "evaluate"
     /\ evaluator \in {"rust", "ocaml"}
     /\ PassesAllSamples(candidate)
     /\ Len(SamplePairs) >= 1) =>
        /\ report.compiles
        /\ report.executes
        /\ ~report.has_syntax_errors
        /\ ~report.has_runtime_errors
        /\ report.passed_tests = report.total_tests
        /\ report.success_rate = One
        /\ report.overall_status = "success"

\* the candidate builds and then crashes at run time
CrashesAtRuntime(p) == p = crash_program

\* the candidate builds and then runs past the time limit
TimesOut(p) == p = loop_program

\* the candidate builds, runs cleanly, and is right on some samples only
PassesSomeNotAll(p) == p = partial_program

\* evaluate() has returned the report of a run-time crash: a compiled-language
\* evaluator was given the crashing candidate, or the mock drew runtime_error
RuntimeCrashCase ==
    /\ last = "evaluate"
    /\ Len(SamplePairs) >= 1
    /\ \/ evaluator \in {"rust", "ocaml"} /\ CrashesAtRuntime(candidate)
       \/ evaluator = "mock" /\ failure_type = "runtime_error"

\* C11: for a candidate that passes the static check but crashes at run time,
\* evaluate returns compiles = true, executes = true, has_runtime_errors =
\* true, a non-empty runtime_errors and overall_status "failed" or "partial";
\* compiles is never false because of the run-time failure.
C11_RuntimeCrashReported ==
    RuntimeCrashCase =>
        /\ report.compiles
        /\ report.executes
        /\ report.has_runtime_errors
        /\ Len(report.runtime_errors) >= 1
        /\ report.overall_status \in {"failed", "partial"}

\* diagnostics whose text contains "timed out"
TimedOutMessages == {"Execution timed out"}

\* evaluate() has returned the report of a run whose first sample exceeded
\* the time limit
TimeoutCase ==
    /\ last = "evaluate"
    /\ Len(SamplePairs) >= 1
    /\ \/ evaluator \in {"rust", "ocaml"} /\ TimesOut(candidate)
       \/ evaluator = "mock" /\ failure_type = "timeout_error"

\* C12: when a sample run exceeds the time limit, that sample's test result
\* has status "error", a runtime_errors entry containing "timed out" is
\* recorded, compiles = true, executes = true and overall_status is "failed"
\* or "partial".
C12_TimeoutReported ==
    TimeoutCase =>
        /\ Len(report.test_results) >= 1
        /\ report.test_results[1].status = "error"
        /\ \E i \in 1..Len(report.runtime_errors) :
              report.runtime_errors[i] \in TimedOutMessages
        /\ report.compiles
        /\ report.executes
        /\ report.overall_status \in {"failed", "partial"}

\* the verdict C13 describes
PartialVerdict ==
    /\ report.compiles
    /\ report.executes
    /\ ~report.has_syntax_errors
    /\ ~report.has_runtime_errors
    /\ 0 < report.passed_tests
    /\ report.passed_tests < report.total_tests
    /\ StrictlyBetween(report.success_rate)
    /\ report.overall_status = "partial"

\* C13: for a candidate that builds, runs cleanly on every sample and is right
\* on at least one but not all samples, evaluate returns compiles, executes,
\* no syntax or runtime errors, 0 < passed_tests < total_tests,
\* 0 < success_rate < 1 and overall_status = "partial".
C13_PartialCandidateReported ==
    (/\ last = "evaluate"
     /\ evaluator \in {"rust", "ocaml"}
     /\ PassesSomeNotAll(candidate)
     /\ Len(SamplePairs) >= 2) => PartialVerdict

\* the mock's partial_success branch does give the verdict of C13 once the
\* datapoint has two sample pairs
C13_MockPartialBranch ==
    (/\ last = "evaluate"
     /\ evaluator = "mock"
     /\ failure_type = "partial_success"
     /\ Len(SamplePairs) >= 2) => PartialVerdict

\* C14: evaluate is total: for every candidate and every problem it returns
\* a finalized report and never raises, and every synthesizer, build and
\* run-time fault is captured in the returned report.
C14_EvaluateTotal ==
    last \in {"evaluate", "raise"} =>
        /\ exception = "none"
        /\ report.overall_status # "unknown"
        /\ candidate = "" => Len(report.synthesizer_errors) >= 1
        /\ BuildFails(candidate) => Len(report.compiler_errors) >= 1
        /\ (CrashesAtRuntime(candidate) \/ TimesOut(candidate)) =>
              Len(report.runtime_errors) >= 1

\* the part of C14 that holds of the three concrete evaluate methods: they
\* return a finalized report and raise nothing
C14_ConcreteEvaluateReturns ==
    last = "evaluate" =>
        /\ exception = "none"
        /\ report.overall_status \in {"success", "partial", "failed"}

\* C20: the availability flag of an adapter is set once, at construction, by
\* the probe, never changes afterwards, and is consulted by every evaluate
\* call, so that an unavailable toolchain is surfaced distinctly instead of
\* producing an ordinary "failed" report.
C20_UnavailableSurfaced ==
    (last = "evaluate" /\ evaluator = "ocaml" /\ ~ocaml_available) =>
        (report.overall_status # "failed" \/ DiagCount(report) > 0)

\* the part of C20 that holds: no evaluate call changes the flag
C20_FlagNeverChanges == [][ocaml_available' = ocaml_available]_vars

\* the OCaml evaluate returns the same report whatever the flag says
C20_EvaluateIgnoresFlag ==
    (last = "evaluate" /\ evaluator = "ocaml") =>
        report = finalize(EvaluationReport(candidate))

---------------------------------------------------------------------------
\* Properties of the pass@k metrics (checked under SpecMetrics).

\* the binomial coefficient C(n, k), 0 when k > n
RECURSIVE Binomial(_, _)
Binomial(n, k) ==
    IF k > n THEN 0
    ELSE IF k = 0 THEN 1
    ELSE (Binomial(n - 1, k - 1) * n) \div k

\* 1 - C(n-c, k) / C(n, k)  for 1 <= k <= n, as an exact fraction; it is 1
\* when n - c < k, because C(n-c, k) is 0 then
Estimator(n, c, k) == Quotient(Binomial(n, k) - Binomial(n - c, k), Binomial(n, k))

\* number of attempts of a log, and number of successful ones
NumAttempts(log) == Len(log.attempts)

NumSuccesses(log) == Cardinality({ i \in 1..Len(log.attempts) : log.attempts[i].success })

Min(a, b) == IF a < b THEN a ELSE b

\* x <= y for fractions
LessEq(x, y) == x.num * y.den <= y.num * x.den

\* x + y for fractions
Plus(x, y) == Quotient(x.num * y.den + y.num * x.den, x.den * y.den)

\* the key of the metrics mapping for k
PassKey(k) == "pass@" \o ToString(k)

\* the logs with at least one attempt, in order
Attempted(logs) == SelectSeq(logs, LAMBDA log : NumAttempts(log) >= 1)

\* the per-problem pass@k of a log, n standing in for k when k > n
PerProblem(log, k) ==
    Estimator(NumAttempts(log), NumSuccesses(log), Min(k, NumAttempts(log)))

RECURSIVE SumPerProblem(_, _)
SumPerProblem(logs, k) ==
    IF logs = << >> THEN Zero
    ELSE Plus(PerProblem(Head(logs), k), SumPerProblem(Tail(logs), k))

\* arithmetic mean of the per-problem pass@k over a non-empty list of logs
MeanPassAtK(logs, k) ==
    LET total == SumPerProblem(logs, k)
    IN  Quotient(total.num, total.den * Len(logs))

\* the metrics have been computed from exactly one log, which has attempts
OneProblem ==
    /\ run_pc = "computed"
    /\ Len(datapoint_logs) = 1
    /\ NumAttempts(datapoint_logs[1]) >= 1

\* C15: for a problem with n >= 1 attempts of which c succeeded, the pass@k
\* that _compute_pass_at_k_metrics computes is 1 - C(n-c, k) / C(n, k), which
\* is 1 when n - c < k; n = 5, c = 2, k = 3 gives 0.9.
C15_PassAtKEstimator ==
    OneProblem =>
        /\ pass_at_k_metrics # "None"
        /\ LET n == NumAttempts(datapoint_logs[1])
               c == NumSuccesses(datapoint_logs[1])
           IN  \A k \in 1..Min(n, max_pass_at_k) :
                   /\ pass_at_k_metrics[PassKey(k)] = Estimator(n, c, k)
                   /\ n - c < k => pass_at_k_metrics[PassKey(k)] = One
                   /\ (n = 5 /\ c = 2 /\ k = 3) =>
                          pass_at_k_metrics[PassKey(k)] = [num |-> 9, den |-> 10]

\* C16: for fixed (n, c) the computed pass@k does not decrease as k grows
\* over 1..n, is 1 for every k <= n when c = n, and is 0 for every k when
\* c = 0.
C16_PassAtKMonotone ==
    OneProblem =>
        /\ pass_at_k_metrics # "None"
        /\ LET n  == NumAttempts(datapoint_logs[1])
               c  == NumSuccesses(datapoint_logs[1])
               ks == 1..Min(n, max_pass_at_k)
           IN  /\ \A j, k \in ks :
                      j <= k => LessEq(pass_at_k_metrics[PassKey(j)],
                                       pass_at_k_metrics[PassKey(k)])
               /\ c = n => \A k \in ks : pass_at_k_metrics[PassKey(k)] = One
               /\ c = 0 => \A k \in 1..max_pass_at_k :
                               pass_at_k_metrics[PassKey(k)] = Zero

\* C17: _compute_pass_at_k_metrics returns a mapping whose keys are exactly
\* pass@1 .. pass@max_pass_at_k; each value is the arithmetic mean, over the
\* logs with at least one attempt, of the per-problem pass@k, where a k above
\* a problem's number of attempts n is replaced by n; so it returns a value
\* for every k and raises nothing.
C17_MetricsMapping ==
    (run_pc = "computed" /\ Attempted(datapoint_logs) # << >>) =>
        /\ pass_at_k_metrics # "None"
        /\ DOMAIN pass_at_k_metrics = { PassKey(k) : k \in 1..max_pass_at_k }
        /\ \A k \in 1..max_pass_at_k :
               pass_at_k_metrics[PassKey(k)] = MeanPassAtK(Attempted(datapoint_logs), k)

\* what the estimator and the mean are on the inputs of SpecMetrics: the
\* formula of C15-C17 is well defined wherever those claims apply it
C15_EstimatorWellDefined ==
    \A i \in 1..Len(Attempted(datapoint_logs)) :
        \A k \in 1..max_pass_at_k :
            LET v == PerProblem(Attempted(datapoint_logs)[i], k)
            IN  LessEq(Zero, v) /\ LessEq(v, One)

---------------------------------------------------------------------------
\* Properties of the evaluation loop (checked under SpecRun).

\* the smallest attempt_number with success, 0 (None) if no attempt succeeded
PassedAtK(log) ==
    LET won == { i \in 1..Len(log.attempts) : log.attempts[i].success }
    IN  IF won = {} THEN 0
        ELSE CHOOSE i \in won : \A j \in won : i <= j

C18_LoopLeavesNoLogs ==
    run_pc \in {"evaluated", "reported"} => datapoint_logs = << >>

---------------------------------------------------------------------------
\* Properties of the scratch directories (checked under SpecScratch).

\* C19: every evaluate call of the Rust and OCaml evaluators works in a
\* directory created for it: the directory exists while the call is in its
\* with-block, no other call, earlier, later or concurrent, has the same
\* directory, no two calls that are in their with-blocks at the same time
\* have the same path, and the directory is gone once the block is left,
\* hence once the call has returned.
C19_ScratchExclusive ==
    /\ \A c \in Workers :
           /\ calls[c].pc = "in_with" => calls[c].temp_dir \in temp_dirs
           /\ calls[c].pc \in {"after_with", "returned"} =>
                  calls[c].temp_dir \notin temp_dirs
    /\ \A c1, c2 \in Workers :
           (c1 # c2 /\ calls[c1].pc # "idle" /\ calls[c2].pc # "idle") =>
               /\ calls[c1].temp_dir # calls[c2].temp_dir
               /\ (calls[c1].pc = "in_with" /\ calls[c2].pc = "in_with") =>
                      calls[c1].temp_dir.path # calls[c2].temp_dir.path
    /\ \A d1, d2 \in temp_dirs : d1 # d2 => d1.path # d2.path

\* two calls are in their with-blocks at the same time
C19_Witness ==
    \E c1, c2 \in Workers :
        /\ c1 # c2
        /\ calls[c1].pc = "in_with"
        /\ calls[c2].pc = "in_with"

\* a path, unlike a directory, can come back: a call is in its with-block
\* under the path of the directory an earlier call had and removed (a state
\* that is reachable)
C19_PathOfRemovedDirectory ==
    \E c1, c2 \in Workers :
        /\ calls[c1].pc = "returned"
        /\ calls[c2].pc = "in_with"
        /\ calls[c1].temp_dir.path = calls[c2].temp_dir.path
        /\ calls[c1].temp_dir # calls[c2].temp_dir

\* no directory is left behind: the existing ones belong to open with-blocks
C19_NoDirectoryLeaked ==
    temp_dirs = { calls[c].temp_dir : c \in { w \in Workers : calls[w].pc = "in_with" } }

---------------------------------------------------------------------------
\* Further properties of the report interface (checked under Spec).

\* the keys of the structured record
StructuredKeys ==
    { "synthesized_program", "synthesized", "compiles", "executes",
      "total_tests", "passed_tests", "failed_tests", "success_rate",
      "overall_status", "test_results", "stdout", "stderr",
      "synthesizer_errors", "compiler_errors", "runtime_errors", "warnings",
      "has_syntax_errors", "has_runtime_errors" }

\* C21: to_dict() of every reachable report, a freshly constructed one and
\* one finalized with no test results and compiles = false included, has
\* every key of the structured record, each with the report's current value
\* of that field.
C21_ToDictFullyPopulated ==
    /\ StructuredKeys \subseteq DOMAIN to_dict(report)
    /\ \A key \in StructuredKeys : to_dict(report)[key] = report[key]

\* an early-exit report: finalized with a compiler error, compiles = false
\* and no test result
C21_Witness ==
    /\ last = "finalize"
    /\ ~report.compiles
    /\ report.test_results = << >>
    /\ report.compiler_errors # << >>
    /\ report.overall_status = "failed"

\* the diagnostic list add_error appends to for each of the four kinds
ListOfKind ==
    [ synthesizer |-> "synthesizer_errors", compiler |-> "compiler_errors",
      runtime     |-> "runtime_errors",     warning  |-> "warnings" ]

\* the flag add_error writes for a kind, and the value it writes
FlagOfKind ==
    [ synthesizer |-> <<"synthesized", FALSE>>,
      compiler    |-> <<"has_syntax_errors", TRUE>>,
      runtime     |-> <<"has_runtime_errors", TRUE>> ]

\* C24: add_error(kind, msg) with kind one of synthesizer, compiler, runtime,
\* warning appends msg to the list of that kind and changes no other field
\* (the other three lists, the counters, test_results, success_rate,
\* overall_status, ...) except the flag of the kind: synthesized = false for
\* synthesizer, has_syntax_errors = true for compiler, has_runtime_errors =
\* true for runtime, none for warning.  Any other kind changes nothing.
C24_AddErrorFrame ==
    \A kind \in ErrorTypes, msg \in ErrorMessages :
        LET after == add_error(report, kind, msg)
        IN  IF kind \in DOMAIN ListOfKind
            THEN LET list    == ListOfKind[kind]
                     written == IF kind \in DOMAIN FlagOfKind
                                THEN {list, FlagOfKind[kind][1]}
                                ELSE {list}
                 IN  /\ after[list] = Append(report[list], msg)
                     /\ kind \in DOMAIN FlagOfKind =>
                            after[FlagOfKind[kind][1]] = FlagOfKind[kind][2]
                     /\ \A f \in DOMAIN report \ written : after[f] = report[f]
            ELSE after = report

\* an add_error call has just recorded a warning on a report that holds
\* test results and a compiler error
C24_Witness ==
    /\ last = "add_error"
    /\ report.warnings # << >>
    /\ report.compiler_errors # << >>
    /\ report.total_tests > 0

\* number of entries of test_results that satisfy Test
CountResults(r, Test(_)) ==
    Cardinality({ i \in 1..Len(r.test_results) : Test(r.test_results[i]) })

\* C25: in every reachable report, passed_tests is the number of test_results
\* entries with status "passed" and failed_tests is the number of entries
\* with any other status: "failed" and "error" results both count as failed.
C25_CountersByStatus ==
    /\ report.passed_tests = CountResults(report, LAMBDA t : t.status = "passed")
    /\ report.failed_tests = CountResults(report, LAMBDA t : t.status # "passed")
    /\ report.failed_tests = CountResults(report, LAMBDA t : t.status \in {"failed", "error"})

\* a report with one passed, one failed and one error result: failed_tests = 2
C25_Witness ==
    /\ report.passed_tests = 1
    /\ report.failed_tests = 2
    /\ CountResults(report, LAMBDA t : t.status = "failed") = 1
    /\ CountResults(report, LAMBDA t : t.status = "error") = 1

\* C26: in every report reachable through add_test_result, add_error and
\* finalize (and the callers' assignments to synthesized, compiles and
\* executes), has_syntax_errors holds iff compiler_errors is not empty and
\* has_runtime_errors holds iff runtime_errors is not empty.
C26_FlagsMatchLists ==
    /\ report.has_syntax_errors  <=> (report.compiler_errors # << >>)
    /\ report.has_runtime_errors <=> (report.runtime_errors # << >>)

\* a finalized report with a compiler error and no runtime error
C26_Witness ==
    /\ last = "finalize"
    /\ report.has_syntax_errors
    /\ report.compiler_errors # << >>
    /\ ~report.has_runtime_errors

\* C27: once add_error("compiler", ...) has recorded a compiler error,
\* has_syntax_errors stays true through every later operation, and every
\* later finalize() leaves overall_status = "failed", whatever compiles is
\* and however many passing results there are.
C27_SyntaxErrorsSticky ==
    [][ report.compiler_errors # << >> =>
            /\ report.has_syntax_errors
            /\ report'.has_syntax_errors
            /\ report'.compiler_errors # << >>
            /\ last' = "finalize" => report'.overall_status = "failed" ]_vars

\* finalize() on a report that compiles, has only passing results (success_rate
\* 1.0) and a compiler error: the status is "failed"
C27_Witness ==
    /\ last = "finalize"
    /\ report.compiler_errors # << >>
    /\ report.compiles
    /\ report.total_tests > 0
    /\ report.passed_tests = report.total_tests
    /\ report.success_rate = One
    /\ report.overall_status = "failed"

---------------------------------------------------------------------------
\* Further properties of the evaluate methods (checked under SpecEval).

\* C22: the report MockSynthesizer.evaluate returns is a failed one: for
\* every datapoint and every choice of failure type its overall_status is
\* not "success".
C22_MockNeverSucceeds ==
    (last = "evaluate" /\ evaluator = "mock") => report.overall_status # "success"

\* what does hold: the mock report is a success only in the partial_success
\* branch on a datapoint with exactly one sample pair
C22_MockSuccessOnlyOnePair ==
    (last = "evaluate" /\ evaluator = "mock" /\ report.overall_status = "success") =>
        /\ failure_type = "partial_success"
        /\ Len(SamplePairs) = 1

---------------------------------------------------------------------------
\* Properties of the reports of several attempts (checked under SpecReports).

\* C23: attempts share no mutable state: the report an evaluate call creates
\* has list objects of its own, and an operation (add_test_result, add_error,
\* finalize, a flag assignment) on one report, in any interleaving with the
\* operations on the others, leaves every field of every other report as it
\* was; creating a report changes no existing report either.
C23_ReportsIndependent ==
    [][ /\ \A j \in 1..Len(reports) : j # target' => View(j)' = View(j)
        /\ \A i, j \in 1..Len(reports') :
               i # j => \A f, g \in ListFields : reports'[i][f] # reports'[j][g] ]_vars

\* two reports written in turn: the first holds a passed result and is
\* finalized as a success, the second holds a compiler error and no result
C23_Witness ==
    /\ Len(reports) = 2
    /\ View(1).overall_status = "success"
    /\ View(1).total_tests = 1
    /\ View(1).compiler_errors = << >>
    /\ View(2).compiler_errors # << >>
    /\ View(2).test_results = << >>
    /\ target = 2

---------------------------------------------------------------------------
\* Properties of synthesize and its logging (checked under SpecSynth).

\* the JSON entries a step added to the log file
NewEntries ==
    SelectSeq(SubSeq(logger'.lines, Len(logger.lines) + 1, Len(logger'.lines)),
              LAMBDA line : line.kind = "json")

\* no log_synthesis call of the call just made raised
LoggingSucceeded ==
    \/ logger'.log_file = "None"
    \/ /\ route(synth'.prompting_method, synth'.outcome).kind = "returned"
       /\ synth'.io1 = "ok"
    \/ /\ route(synth'.prompting_method, synth'.outcome).kind = "raised"
       /\ synth'.io2 = "ok"

\* what the claim requires of a call: one entry, success with the returned
\* program, or failure with an empty program and the error text and the
\* exception raised to the caller
OneEntryWritten ==
    LET routed == route(synth'.prompting_method, synth'.outcome)
    IN  /\ Len(NewEntries) = 1
        /\ routed.kind = "returned" =>
               /\ NewEntries[1] = LogEntry(routed.value, TRUE, "None")
               /\ synth'.result = Returns(routed.value)
        /\ routed.kind = "raised" =>
               /\ NewEntries[1] = LogEntry("", FALSE, routed.exc.message)
               /\ synth'.result = routed

\* C28 as stated: every synthesize call whose logging succeeds writes exactly
\* one log entry, success = true with the returned program if the prompting
\* method returns, success = false with an empty program and the error text
\* if it raises or its name is unknown, and then the exception is re-raised.
C28_OneLogEntryPerCall ==
    [][ LoggingSucceeded => OneEntryWritten ]_vars

\* C28, amended: that holds for a logger with a log_file.  A logger without
\* log_file (the default of ProgramSynthesizer) writes no entry: the call
\* only hands one status record to the logging module, and still returns the
\* program or re-raises the exception.
C28_OneLogEntryWithLogFile ==
    [][ LoggingSucceeded =>
            LET routed == route(synth'.prompting_method, synth'.outcome)
            IN  /\ logger'.log_file # "None" => OneEntryWritten
                /\ logger'.log_file = "None" =>
                       /\ logger'.lines = logger.lines
                       /\ synth'.result = routed
                /\ Len(logger'.records) = Len(logger.records) + 1
                /\ logger'.records[Len(logger'.records)] =
                       (IF routed.kind = "returned" THEN "SUCCESS" ELSE "FAILED") ]_vars

\* a call with an unknown prompting method on a logger with a log_file has
\* written its failure entry and raised ValueError to the caller, after an
\* earlier call that returned a program
C28_Witness ==
    /\ logger.log_file # "None"
    /\ synth.prompting_method \in PromptingMethods \ KnownMethods
    /\ synth.result.kind = "raised"
    /\ synth.result.exc.type = "ValueError"
    /\ Len(logger.lines) = 4
    /\ logger.lines[1] = LogEntry(good_program, TRUE, "None")
    /\ logger.lines[3].kind = "json"
    /\ ~logger.lines[3].success

---------------------------------------------------------------------------
\* Properties of the success rates (checked under SpecRates).

\* the (log, attempt) positions of all attempts, and of the successful ones
AllAttempts ==
    { <<d, a>> \in (1..Len(datapoint_logs)) \X (1..MaxRateAttempts) :
          a <= Len(datapoint_logs[d].attempts) }

SuccessfulAttempts ==
    { p \in AllAttempts : datapoint_logs[p[1]].attempts[p[2]].success }

\* the logs whose passed_at_k is not None
LogsPassed == { d \in 1..Len(datapoint_logs) : datapoint_logs[d].passed_at_k # 0 }

\* C29: _compute_success_rates returns successful_attempts = the number of
\* attempts with success = true over all logs, overall_success_rate = that
\* number over the number of attempts (0 without attempts) and
\* datapoint_success_rate = the fraction of logs whose passed_at_k is not
\* None (0 without logs); so 0 <= successful_attempts <= attempts and both
\* rates lie in [0, 1].
C29_SuccessRates ==
    run_pc = "computed" =>
        LET successes == Cardinality(SuccessfulAttempts)
            attempts  == Cardinality(AllAttempts)
            n         == Len(datapoint_logs)
        IN  /\ success_rates.successful_attempts = successes
            /\ success_rates.overall_success_rate =
                   (IF attempts > 0 THEN Quotient(successes, attempts) ELSE Zero)
            /\ success_rates.datapoint_success_rate =
                   (IF n > 0 THEN Quotient(Cardinality(LogsPassed), n) ELSE Zero)
            /\ 0 <= success_rates.successful_attempts
            /\ success_rates.successful_attempts <= attempts
            /\ LessEq(Zero, success_rates.overall_success_rate)
            /\ LessEq(success_rates.overall_success_rate, One)
            /\ LessEq(Zero, success_rates.datapoint_success_rate)
            /\ LessEq(success_rates.datapoint_success_rate, One)

\* rates computed from two logs: one attempt of three succeeded, in the one
\* log of the two that passed
C29_Witness ==
    /\ run_pc = "computed"
    /\ Len(datapoint_logs) = 2
    /\ success_rates.successful_attempts = 1
    /\ success_rates.overall_success_rate = [num |-> 1, den |-> 3]
    /\ success_rates.datapoint_success_rate = [num |-> 1, den |-> 2]

---------------------------------------------------------------------------
\* Properties of run_evaluation (checked under SpecRun).

\* C30: run_evaluation returns the final report for every dataset size; for
\* a dataset with zero datapoints it returns without raising, and the report
\* has total_datapoints = 0, total_attempts = 0, overall_success_rate = 0 and
\* average_time_per_datapoint = 0.
C30_RunReturnsReport ==
    run_pc = "done" =>
        /\ run_outcome.kind = "returned"
        /\ Len(dataset) = 0 =>
               LET summary == run_outcome.value.summary_statistics
               IN  /\ summary.total_datapoints = 0
                   /\ summary.total_attempts = 0
                   /\ summary.overall_success_rate = Zero
                   /\ summary.average_time_per_datapoint = Zero

\* what does hold: on a dataset with datapoints run_evaluation returns the
\* report; on an empty one _generate_final_report builds the four zeros and
\* run_evaluation then raises ZeroDivisionError
C30_EmptyDatasetRaises ==
    /\ (run_pc = "reported" /\ Len(dataset) = 0) =>
           LET summary == run_outcome.summary_statistics
           IN  /\ summary.total_datapoints = 0
               /\ summary.total_attempts = 0
               /\ summary.overall_success_rate = Zero
               /\ summary.average_time_per_datapoint = Zero
    /\ run_pc = "done" =>
           IF Len(dataset) = 0
           THEN run_outcome = Raises("ZeroDivisionError", "division by zero")
           ELSE run_outcome.kind = "returned"

=============================================================================
